---- MODULE Spec2Model ----
(***************************************************************************)
(* The chat widget of chatbot-react as a state machine.                    *)
(*                                                                         *)
(* Two components are modelled, one per source file:                       *)
(*   internal : src/src/Chabot/Chatbot.tsx  (owns `messages`)              *)
(*   paired   : src/unnamed/part_000        (owner supplies `conversation`)*)
(*                                                                         *)
(* A React function component is a closure per render: every handler reads *)
(* the state of the render that created it (`view`), while setState writes *)
(* the hook state, which a later render commits to the closures.  The      *)
(* async handleSendMessage is cut at its awaits: the part up to            *)
(* `await fetch`, the part from the settled fetch to `await res.json()`,   *)
(* and the part from the settled body to the end of `finally`.             *)
(*                                                                         *)
(* Specifications:                                                         *)
(*   Spec      : one component, of either variant                          *)
(*   SpecFair  : Spec with renders and settles that do happen              *)
(*   SpecTwin  : the two variants side by side on the same events          *)
(*   SpecOwner : the paired variant under an owner that appends entries    *)
(***************************************************************************)
EXTENDS Integers, Sequences, FiniteSets, TLC

\* ------------------------------------------------------------------ bounds
MaxExchanges == 2    \* remote calls issued in one behaviour
MaxClock == 1        \* last reading of the millisecond clock
MaxOwnerEntries == 2 \* entries the owner of the conversation appends itself

\* --------------------------------------------------------------- constants
Variants == {"internal", "paired"}
WhiteSpace == {" "}
UserIds == {"u1"}
FallbackText == "Thank you for your message. How can I assist you further?"
ApologyText == "Sorry, I encountered a temporary issue. Please try again in a moment."
AnswerText == "Hello there!"

\* What `await fetch(...)` settles to: a rejection, or a Response with res.ok.
FetchResults == {"reject", "notok", "ok"}
\* What the body of a Response holds: text JSON.parse rejects, the JSON values
\* null and a scalar, an object without `answer`, with answer "" and with a
\* non-empty string answer.
Bodies == {"unparsable", "null", "scalar", "noanswer", "emptyanswer", "answer"}
\* What the caller's onSaveMessage does when invoked.
CallbackResults == {"returns", "throws"}

\* What is typed into the input box: nothing, a blank, and a text with
\* blanks around it.
InputTexts == {<<>>, <<" ">>, <<" ", "h", "i", " ">>}

\* ---------------------------------------------------------- String.trim
RECURSIVE trimStart(_)
trimStart(t) ==
    IF t # <<>> /\ Head(t) \in WhiteSpace THEN trimStart(Tail(t)) ELSE t

RECURSIVE trimEnd(_)
trimEnd(t) ==
    IF t # <<>> /\ t[Len(t)] \in WhiteSpace
    THEN trimEnd(SubSeq(t, 1, Len(t) - 1))
    ELSE t

trim(t) == trimEnd(trimStart(t))

\* ------------------------------------------------------------------ state
VARIABLES
    comp,    \* the mounted component: hook state, render closure, async calls
    now,     \* the reading of Date.now()
    twin     \* a paired-entry component mounted beside comp, or NoTwin

vars == <<comp, now, twin>>

NoTwin == "<none>"

\* The hook state a render captures for its handlers.
Snapshot(s) ==
    [isOpen |-> s.isOpen, inputMessage |-> s.inputMessage, isLoading |-> s.isLoading]

\* useState initial values, and the props of the mount.
\*   store      : `messages` (internal) or the owner's `conversation` (paired)
\*   view       : the hook state the handlers of the last render read
\*   calls      : the invocations of handleSendMessage suspended at an await,
\*                each with the request it sent and the await it is at
\*   issued     : how many times fetch has been called
\*   resolvedOk : how many of those calls resolved with res.ok
\*   saved      : the arguments of every onSaveMessage invocation, in order
Mount(variant, userId, hasSave) ==
    LET hooks == [isOpen |-> FALSE, inputMessage |-> <<>>, isLoading |-> FALSE]
    IN  [variant |-> variant,
         user |-> [id |-> userId],
         onSaveMessage |-> hasSave,
         isOpen |-> hooks.isOpen,
         inputMessage |-> hooks.inputMessage,
         isLoading |-> hooks.isLoading,
         store |-> <<>>,
         view |-> hooks,
         calls |-> <<>>,
         issued |-> 0,
         resolvedOk |-> 0,
         saved |-> <<>>]

Init ==
    /\ \E variant \in Variants, userId \in UserIds, hasSave \in BOOLEAN :
          /\ (variant = "paired" => ~hasSave)
          /\ comp = Mount(variant, userId, hasSave)
    /\ now = 0
    /\ twin = NoTwin

\* ------------------------------------------------- the response, as read
Undefined == "<undefined>"

\* `await res.json()`: rejects when the body is not JSON.
jsonRejects(body) == body = "unparsable"

\* `data.answer`: a TypeError on null, undefined on a scalar or an object
\* without the field, the field's value otherwise.
answerThrows(body) == body = "null"

answer(body) ==
    CASE body = "emptyanswer" -> ""
      [] body = "answer" -> AnswerText
      [] OTHER -> Undefined

truthy(v) == v # Undefined /\ v # ""

\* The reply without the fallback: `const botResponse = data.answer;`
botResponseOf_noFallback(body) == answer(body)

\* `data.answer || "Thank you ..."`
botResponseOf(body) == IF truthy(answer(body)) THEN answer(body) ELSE FallbackText

\* ------------------------------------------------------- shared by both
\* The guard without the trim: `if (!inputMessage || isLoading) return;`
guardReturns_untrimmed(s) == s.view.inputMessage = <<>> \/ s.view.isLoading

\* `if (!inputMessage.trim() || isLoading) return;` read off the closure.
guardReturns(s) == trim(s.view.inputMessage) = <<>> \/ s.view.isLoading

\* The request handed to fetch: body.message and body.userId.
request(s) == [message |-> trim(s.view.inputMessage), userId |-> s.user.id]

RemoveAt(q, i) == SubSeq(q, 1, i - 1) \o SubSeq(q, i + 1, Len(q))

\* The handler without its `finally`: the pending flag is never cleared.
finallyBlock_keepsLoading(s, i) == [s EXCEPT !.calls = RemoveAt(@, i)]

\* `finally { setIsLoading(false); }`, and the async call is over.
finallyBlock(s, i) == [s EXCEPT !.isLoading = FALSE, !.calls = RemoveAt(@, i)]

\* ------------------------------------------- internal: Chatbot.tsx
userMessage(s, t) ==
    [id |-> ToString(t), type |-> "user", message |-> trim(s.view.inputMessage),
     timestamp |-> t]

botMessage(text, t) ==
    [id |-> ToString(t + 1), type |-> "bot", message |-> text, timestamp |-> t]

errorMessage(t) == botMessage(ApologyText, t)

\* The catch block replacing the list: `setMessages([errorMessage])`.
catchBlock_internal_replacing(s, t) == [s EXCEPT !.store = <<errorMessage(t)>>]

\* `catch (error) { ... setMessages(prev => [...prev, errorMessage]); }`
catchBlock_internal(s, t) == [s EXCEPT !.store = Append(@, errorMessage(t))]

\* handleSendMessage up to `await fetch(...)`.
handleSendMessage_internal(s, t) ==
    IF guardReturns(s) THEN s
    ELSE [s EXCEPT !.store = Append(@, userMessage(s, t)),
                   !.inputMessage = <<>>,
                   !.isLoading = TRUE,
                   !.calls = Append(@, [request |-> request(s), stage |-> "fetch"]),
                   !.issued = @ + 1]

\* The handler without `if (!res.ok) throw ...`: any response is read.
afterFetch_internal_unchecked(s, i, res, t) ==
    IF res # "reject"
    THEN [s EXCEPT !.calls[i].stage = "json", !.resolvedOk = @ + 1]
    ELSE finallyBlock(catchBlock_internal(s, t), i)

\* From the settled fetch to `await res.json()`.
afterFetch_internal(s, i, res, t) ==
    IF res = "ok"
    THEN [s EXCEPT !.calls[i].stage = "json", !.resolvedOk = @ + 1]
    ELSE finallyBlock(catchBlock_internal(s, t), i)

\* `if (onSaveMessage) { onSaveMessage({question, answer, userId}) }`
saveMessage(s, i, text) ==
    IF s.onSaveMessage
    THEN [s EXCEPT !.saved = Append(@, [question |-> s.calls[i].request.message,
                                         answer |-> text,
                                         userId |-> s.user.id])]
    ELSE s

\* From the settled body to the end of `finally`.
afterJson_internal(s, i, body, cb, t) ==
    IF jsonRejects(body) \/ answerThrows(body)
    THEN finallyBlock(catchBlock_internal(s, t), i)
    ELSE LET text == botResponseOf(body)
             replied == [s EXCEPT !.store = Append(@, botMessage(text, t))]
             notified == saveMessage(replied, i, text)
         IN  IF s.onSaveMessage /\ cb = "throws"
             THEN finallyBlock(catchBlock_internal(notified, t), i)
             ELSE finallyBlock(notified, i)

\* --------------------------------------------- paired: unnamed/part_000
newEntry(s, i, text, t) ==
    [user |-> s.calls[i].request.message, bot |-> text, time |-> t]

errorEntry(s, i, t) == newEntry(s, i, ApologyText, t)

\* An entry the owner of the conversation appends itself, its n-th.
OwnerText == <<"o">>
ownerEntry(n, t) == [user |-> OwnerText, bot |-> ToString(n), time |-> t]
IsOwnerEntry(e) == e.user = OwnerText
OwnerEntries(store) == SelectSeq(store, IsOwnerEntry)

\* The sequence without the entries the owner appended at its end.
RECURSIVE WithoutOwnerTail(_)
WithoutOwnerTail(store) ==
    IF store # <<>> /\ IsOwnerEntry(store[Len(store)])
    THEN WithoutOwnerTail(SubSeq(store, 1, Len(store) - 1))
    ELSE store

\* The catch block writing a literal sequence built from the `conversation`
\* the handler captured, `setConversation([...conversation, errorEntry])`:
\* what the owner appended since is overwritten.
catchBlock_paired_literal(s, i, t) ==
    [s EXCEPT !.store = Append(WithoutOwnerTail(@), errorEntry(s, i, t))]

\* `catch (error) { ... setConversation(prev => [...prev, errorEntry]); }`
catchBlock_paired(s, i, t) == [s EXCEPT !.store = Append(@, errorEntry(s, i, t))]

\* The handler echoing the user's half at submit:
\* `setConversation(prev => [...prev, {user: userMessage, bot: '', time}])`.
handleSendMessage_paired_echoing(s, t) ==
    IF guardReturns(s) THEN s
    ELSE [s EXCEPT !.store = Append(@, [user |-> trim(s.view.inputMessage),
                                        bot |-> "", time |-> t]),
                   !.inputMessage = <<>>,
                   !.isLoading = TRUE,
                   !.calls = Append(@, [request |-> request(s), stage |-> "fetch"]),
                   !.issued = @ + 1]

\* handleSendMessage up to `await fetch(...)`.
handleSendMessage_paired(s, t) ==
    IF guardReturns(s) THEN s
    ELSE [s EXCEPT !.inputMessage = <<>>,
                   !.isLoading = TRUE,
                   !.calls = Append(@, [request |-> request(s), stage |-> "fetch"]),
                   !.issued = @ + 1]

\* The handler with a retry: a failed call is issued again.
afterFetch_paired_retrying(s, i, res, t) ==
    IF res = "ok"
    THEN [s EXCEPT !.calls[i].stage = "json", !.resolvedOk = @ + 1]
    ELSE IF s.issued < MaxExchanges
         THEN [s EXCEPT !.issued = @ + 1]
         ELSE finallyBlock(catchBlock_paired(s, i, t), i)

\* From the settled fetch to `await res.json()`.
afterFetch_paired(s, i, res, t) ==
    IF res = "ok"
    THEN [s EXCEPT !.calls[i].stage = "json", !.resolvedOk = @ + 1]
    ELSE finallyBlock(catchBlock_paired(s, i, t), i)

afterJson_paired(s, i, body, t) ==
    IF jsonRejects(body) \/ answerThrows(body)
    THEN finallyBlock(catchBlock_paired(s, i, t), i)
    ELSE finallyBlock(
             [s EXCEPT !.store = Append(@, newEntry(s, i, botResponseOf(body), t))], i)

\* ------------------------------------------------------ either variant
handleSendMessage(s, t) ==
    IF s.variant = "internal"
    THEN handleSendMessage_internal(s, t)
    ELSE handleSendMessage_paired(s, t)

afterFetch(s, i, res, t) ==
    IF s.variant = "internal"
    THEN afterFetch_internal(s, i, res, t)
    ELSE afterFetch_paired(s, i, res, t)

afterJson(s, i, body, cb, t) ==
    IF s.variant = "internal"
    THEN afterJson_internal(s, i, body, cb, t)
    ELSE afterJson_paired(s, i, body, t)

\* `if (e.key === 'Enter' && !e.shiftKey) { ...; handleSendMessage(); }`
handleKeyPress(s, key, shiftKey, t) ==
    IF key = "Enter" /\ ~shiftKey THEN handleSendMessage(s, t) ELSE s

\* `const toggleChat = () => setIsOpen(!isOpen);`
toggleChat(s) == [s EXCEPT !.isOpen = ~s.view.isOpen]

\* `onChange={(e) => setInputMessage(e.target.value)}`
setInputMessage(s, value) == [s EXCEPT !.inputMessage = value]

\* A render: the handlers of the new closure read the committed hook state.
render(s) == [s EXCEPT !.view = Snapshot(s)]

\* `disabled={!inputMessage.trim() || isLoading}` of the send button.
sendDisabled(s) == trim(s.view.inputMessage) = <<>> \/ s.view.isLoading

\* `disabled={isLoading}` of the input box.
inputDisabled(s) == s.view.isLoading

\* The input box and the send button exist only in `{isOpen && (...)}`.
panelMounted(s) == s.view.isOpen

\* ---------------------------------------------------------------- actions
Keys == {"Enter", "a"}

\* The model stops issuing calls at MaxExchanges.
WithinBound(s) == guardReturns(s) \/ s.issued < MaxExchanges

\* A key pressed in the input box.  The handler is reached whenever the box
\* is mounted: a disabled box keeps the user out, not a dispatched event.
KeyPress ==
    /\ panelMounted(comp)
    /\ \E key \in Keys, shiftKey \in BOOLEAN :
          /\ (key = "Enter" /\ ~shiftKey) => WithinBound(comp)
          /\ comp' = handleKeyPress(comp, key, shiftKey, now)
    /\ UNCHANGED <<now, twin>>

\* The send button clicked; a disabled button receives no click.
ClickSend ==
    /\ panelMounted(comp)
    /\ ~sendDisabled(comp)
    /\ WithinBound(comp)
    /\ comp' = handleSendMessage(comp, now)
    /\ UNCHANGED <<now, twin>>

\* Text typed into the input box.  The box is a controlled input: React
\* flushes the update of a change event before the event returns, so the
\* handlers are those of the new render when the next event arrives.
Type ==
    /\ panelMounted(comp)
    /\ ~inputDisabled(comp)
    /\ \E value \in InputTexts :
          /\ value # comp.view.inputMessage
          /\ comp' = render(setInputMessage(comp, value))
    /\ UNCHANGED <<now, twin>>

\* The toggle button (or, when open, the close button) clicked.
Toggle ==
    /\ comp' = toggleChat(comp)
    /\ UNCHANGED <<now, twin>>

\* React re-renders after a state update.
Render ==
    /\ comp.view # Snapshot(comp)
    /\ comp' = render(comp)
    /\ UNCHANGED <<now, twin>>

\* The updates of the event handlers have been rendered.  isOpen and
\* inputMessage are written by event handlers only, and React flushes the
\* updates of an event in a microtask of the event's own task: a promise
\* that settles, in a later task or a later microtask, finds them rendered.
\* The updates of a settle itself (isLoading, the store) are rendered in a
\* task of their own, which a later event or settle may precede.
EventsRendered(s) ==
    s.view.isOpen = s.isOpen /\ s.view.inputMessage = s.inputMessage

\* `await fetch(...)` settles for the i-th call in flight.
FetchSettles ==
    /\ EventsRendered(comp)
    /\ \E i \in 1..Len(comp.calls), res \in FetchResults :
          /\ comp.calls[i].stage = "fetch"
          /\ comp' = afterFetch(comp, i, res, now)
    /\ UNCHANGED <<now, twin>>

\* `await res.json()` settles for the i-th call in flight.
JsonSettles ==
    /\ EventsRendered(comp)
    /\ \E i \in 1..Len(comp.calls), body \in Bodies, cb \in CallbackResults :
          /\ comp.calls[i].stage = "json"
          /\ (cb = "throws") =>
                (comp.onSaveMessage /\ ~jsonRejects(body) /\ ~answerThrows(body))
          /\ comp' = afterJson(comp, i, body, cb, now)
    /\ UNCHANGED <<now, twin>>

\* A millisecond passes.
Tick ==
    /\ now < MaxClock
    /\ now' = now + 1
    /\ UNCHANGED <<comp, twin>>

Next ==
    \/ KeyPress
    \/ ClickSend
    \/ Type
    \/ Toggle
    \/ Render
    \/ FetchSettles
    \/ JsonSettles
    \/ Tick

Spec == Init /\ [][Next]_vars

\* ----------------------------------------------------------------- claims
IsPrefix(p, q) == Len(p) <= Len(q) /\ SubSeq(q, 1, Len(p)) = p

\* The entries a step from store p to store q appended.
Appended(p, q) == SubSeq(q, Len(p) + 1, Len(q))

JsonCalls(s) == {i \in 1..Len(s.calls) : s.calls[i].stage = "json"}
FetchCalls(s) == {i \in 1..Len(s.calls) : s.calls[i].stage = "fetch"}

\* The outcomes of onSaveMessage that can follow body: it is invoked, and so
\* can throw, only where the component has one and the reply was built.
CallbackOutcomes(s, body) ==
    IF s.onSaveMessage /\ ~jsonRejects(body) /\ ~answerThrows(body)
    THEN CallbackResults
    ELSE {"returns"}

\* C1: in both variants, whatever the interleaving of submit triggers and
\* settle events, at most one remote call is issued and not yet settled.
C1_AtMostOneOutstandingCall == Len(comp.calls) <= 1

\* An entry's bot turn: a bot message, or the bot half of a paired entry.
HasBotTurn(s, e) == s.variant = "paired" \/ e.type = "bot"
BotText(s, e) == IF s.variant = "internal" THEN e.message ELSE e.bot

\* The entry a settle appends for call i with bot text `text`.
ExpectedBotEntry(s, i, text) ==
    IF s.variant = "internal"
    THEN [id |-> ToString(now + 1), type |-> "bot", message |-> text, timestamp |-> now]
    ELSE [user |-> s.calls[i].request.message, bot |-> text, time |-> now]

HiText == <<" ", "h", "i", " ">>
Hi == <<"h", "i">>

C3_AppendOnly == [][IsPrefix(comp.store, comp'.store)]_vars

C3_Witness == Len(comp.store) >= 2 /\ comp.issued = 2 /\ comp.calls = <<>>

\* Calls that have settled, those of them whose fetch resolved with res.ok,
\* and those that rejected or resolved with another status.
Settled(s) == s.issued - Len(s.calls)
SettledOk(s) == s.resolvedOk - Cardinality(JsonCalls(s))
SettledFailed(s) == Settled(s) - SettledOk(s)

BotTurns(s) == {k \in 1..Len(s.store) : HasBotTurn(s, s.store[k])}
Apologies(s) == {k \in BotTurns(s) : BotText(s, s.store[k]) = ApologyText}

\* C4: a call that resolves with a successful status and a non-empty answer
\* appends exactly one bot turn, with that answer, and clears the pending
\* flag: after one exchange from an empty store that was answered, the
\* store holds the user's trimmed text and the answer and nothing else.
C4_SuccessAppendsOneReply ==
    (/\ comp.issued = 1 /\ comp.calls = <<>>
     /\ \E k \in BotTurns(comp) : BotText(comp, comp.store[k]) = AnswerText) =>
        /\ ~comp.isLoading
        /\ IF comp.variant = "internal"
           THEN /\ Len(comp.store) = 2
                /\ comp.store[1].type = "user" /\ comp.store[1].message = Hi
                /\ comp.store[2].type = "bot" /\ comp.store[2].message = AnswerText
           ELSE /\ Len(comp.store) = 1
                /\ comp.store[1].user = Hi /\ comp.store[1].bot = AnswerText

C6_FailureLaw ==
    \A i \in FetchCalls(comp) :
        /\ \A res \in {"reject", "notok"} :
              LET after == afterFetch(comp, i, res, now)
              IN  /\ Appended(comp.store, after.store)
                       = <<ExpectedBotEntry(comp, i, ApologyText)>>
                  /\ after.saved = comp.saved
                  /\ ~after.isLoading
        /\ afterFetch(comp, i, "reject", now) = afterFetch(comp, i, "notok", now)

C6_Witness ==
    /\ comp.onSaveMessage
    /\ comp.calls = <<>> /\ comp.issued = 1 /\ ~comp.isLoading
    /\ comp.resolvedOk = 0
    /\ Len(comp.store) = 2
    /\ comp.store[2].type = "bot" /\ comp.store[2].message = ApologyText
    /\ comp.saved = <<>>

\* C7: with a save callback, every exchange whose call resolved with a
\* successful status has invoked it exactly once: the callback has been
\* invoked as many times as such exchanges have settled, each time with the
\* trimmed text of a submit, a bot text of the store and user.id.
C7_SaveOncePerSuccess ==
    (comp.variant = "internal" /\ comp.onSaveMessage) =>
        /\ Len(comp.saved) = SettledOk(comp)
        /\ \A n \in 1..Len(comp.saved) :
              /\ comp.saved[n].question = Hi
              /\ comp.saved[n].userId = comp.user.id
              /\ \E k \in BotTurns(comp) : comp.store[k].message = comp.saved[n].answer

\* C9: a call that resolves with a successful status takes the success path
\* whatever its body: its bot text is the answer or the fallback, never the
\* apology, so the store holds one apology per failed call and no more.
\* (Stated for a component without a save callback.)
C9_OkStatusTakesSuccessPath ==
    ~comp.onSaveMessage => Cardinality(Apologies(comp)) = SettledFailed(comp)

\* C10: for an exchange that settled successfully, the store, the pending
\* flag and the input text do not depend on what the save callback did: the
\* exchange contributes one bot message, the reply, and no apology.
C10_CallbackOutcomeIgnored ==
    (/\ comp.variant = "internal" /\ comp.issued = 1 /\ comp.calls = <<>>
     /\ Len(comp.saved) = 1) =>
        /\ Len(comp.store) = 2
        /\ comp.store[2].type = "bot"
        /\ comp.store[2].message = comp.saved[1].answer
        /\ ~comp.isLoading

\* ----------------------------------------------------------------- liveness
\* React renders the updates it has scheduled, and every issued call
\* settles: the promise of fetch and the promise of res.json() are each
\* resolved or rejected, however often an event and its render come first.
SpecFair == Spec /\ WF_vars(Render) /\ SF_vars(FetchSettles) /\ SF_vars(JsonSettles)

\* A fresh non-blank text typed, rendered and submitted is accepted.
RetryAccepted(s) ==
    LET typed == render(setInputMessage(render(s), HiText))
    IN  Len(handleSendMessage(typed, now).calls) = Len(s.calls) + 1

\* C8: a pending flag that is true is eventually false, whatever the call
\* settles to; and after every settle a submit is accepted again.
C8_NeverStuck ==
    /\ comp.isLoading ~> ~comp.isLoading
    /\ [][Len(comp'.calls) < Len(comp.calls) => RetryAccepted(comp')]_vars

\* A second submit accepted after the first exchange failed.
C8_Witness ==
    /\ comp.variant = "paired"
    /\ Len(comp.store) = 1 /\ comp.store[1].bot = ApologyText
    /\ comp.resolvedOk = 0
    /\ comp.issued = 2 /\ Len(comp.calls) = 1 /\ comp.isLoading

\* ------------------------------------------------------------ claims, 11-20
\* A step that is a submit whose guard passed.
AcceptedSubmit == ~guardReturns(comp) /\ comp' = handleSendMessage(comp, now)

\* A step in which call i moved from `await fetch` to `await res.json()`.
BodyAwaited(i) ==
    /\ comp.calls[i].stage = "fetch"
    /\ comp'.calls = [comp.calls EXCEPT ![i].stage = "json"]

\* A step in which call i settled: it left the calls in flight.
SettledAt(i) == comp'.calls = RemoveAt(comp.calls, i)

UserMessages(s) == {k \in 1..Len(s.store) : s.store[k].type = "user"}

\* C11: one remote call per accepted submit.  A submit that passes the guard
\* issues exactly one call; no other step issues one (no retry), and a call
\* leaves the calls in flight only by settling with an append (no
\* cancellation).  So the calls issued are as many as the user messages
\* echoed (internal) or as the entries appended plus the calls in flight
\* (paired).
C11_OneCallPerAcceptedSubmit ==
    /\ [][IF AcceptedSubmit
          THEN /\ comp'.issued = comp.issued + 1
               /\ comp'.calls = Append(comp.calls,
                                       [request |-> request(comp), stage |-> "fetch"])
          ELSE /\ comp'.issued = comp.issued
               /\ \/ comp'.calls = comp.calls
                  \/ \E i \in 1..Len(comp.calls) : BodyAwaited(i)
                  \/ \E i \in 1..Len(comp.calls) :
                        SettledAt(i) /\ Len(comp'.store) > Len(comp.store)]_vars
    /\ [](IF comp.variant = "internal"
          THEN Cardinality(UserMessages(comp)) = comp.issued
          ELSE Len(comp.store) + Len(comp.calls) = comp.issued)

\* Two calls failed, and the second was issued by a submit of its own.
C11_Witness ==
    /\ comp.variant = "internal"
    /\ comp.issued = 2 /\ comp.resolvedOk = 0 /\ comp.calls = <<>>
    /\ Len(comp.store) = 4
    /\ comp.store[2].message = ApologyText /\ comp.store[3].type = "user"
    /\ comp.store[4].message = ApologyText

Last(q) == q[Len(q)]

\* C12: in the internal variant the user message is in the store while the
\* request is pending (whenever the pending flag is true the last entry is
\* the user message of a call in flight), and the bot turn of an exchange is
\* appended at its settle, directly after that user message.
C12_OptimisticEcho ==
    /\ [](comp.variant = "internal" /\ comp.isLoading =>
            /\ comp.store # <<>>
            /\ Last(comp.store).type = "user"
            /\ \E i \in 1..Len(comp.calls) :
                  comp.calls[i].request.message = Last(comp.store).message)
    /\ [][\A i \in 1..Len(comp.calls) :
            (comp.variant = "internal" /\ SettledAt(i)) =>
               /\ comp.store # <<>>
               /\ Last(comp.store).type = "user"
               /\ Last(comp.store).message = comp.calls[i].request.message
               /\ Len(comp'.store) > Len(comp.store)
               /\ comp'.store[Len(comp.store) + 1].type = "bot"]_vars

\* The bot texts a settle can append.
BotTexts == {AnswerText, FallbackText, ApologyText}

\* C13: in the paired variant a submit leaves the store as it is, and the
\* store changes only when a call settles, by the append of one entry whose
\* user half is the trimmed text that call captured at its submit and whose
\* bot half is the reply, the fallback or the apology.
C13_PairedAppendsOnlyAtSettle ==
    /\ [](comp.variant = "paired" =>
            /\ handleSendMessage(comp, now).store = comp.store
            /\ \A k \in 1..Len(comp.store) :
                  comp.store[k].user = Hi /\ comp.store[k].bot \in BotTexts)
    /\ [][(comp.variant = "paired" /\ comp'.store # comp.store) =>
            \E i \in 1..Len(comp.calls), text \in BotTexts :
               /\ SettledAt(i)
               /\ comp'.store = Append(comp.store,
                      [user |-> comp.calls[i].request.message,
                       bot |-> text, time |-> now])]_vars

\* One exchange answered and appended whole; the next submitted, in flight,
\* with nothing appended for it.
C13_Witness ==
    /\ comp.variant = "paired"
    /\ comp.store = <<[user |-> Hi, bot |-> AnswerText, time |-> 0]>>
    /\ comp.issued = 2 /\ Len(comp.calls) = 1
    /\ comp.calls[1].request.message = Hi

\* The component apart from its open flag (hook state and closure).
Exchange(s) ==
    [store |-> s.store, inputMessage |-> s.inputMessage, isLoading |-> s.isLoading,
     calls |-> s.calls, issued |-> s.issued, saved |-> s.saved,
     viewInput |-> s.view.inputMessage, viewLoading |-> s.view.isLoading]

\* C14: the toggle and the exchange are independent.  A toggle flips the
\* open flag and changes nothing of the exchange; a submit and a settle
\* leave the open flag as it is; and a call in flight settles, appends and
\* clears the pending flag whether the panel is open or closed.
C14_ToggleIndependent ==
    /\ toggleChat(comp).isOpen = ~comp.isOpen
    /\ Exchange(toggleChat(comp)) = Exchange(comp)
    /\ handleSendMessage(comp, now).isOpen = comp.isOpen
    /\ \A i \in FetchCalls(comp), res \in FetchResults :
          LET after == afterFetch(comp, i, res, now)
          IN  /\ after.isOpen = comp.isOpen
              /\ res # "ok" => Len(after.store) = Len(comp.store) + 1 /\ ~after.isLoading
    /\ \A i \in JsonCalls(comp), body \in Bodies :
          \A cb \in CallbackOutcomes(comp, body) :
             LET after == afterJson(comp, i, body, cb, now)
             IN  /\ after.isOpen = comp.isOpen
                 /\ Len(after.store) > Len(comp.store)
                 /\ ~after.isLoading

\* The frame conditions and the settle of C14 without the flip.
C14_Frames ==
    /\ Exchange(toggleChat(comp)) = Exchange(comp)
    /\ handleSendMessage(comp, now).isOpen = comp.isOpen
    /\ \A i \in FetchCalls(comp), res \in FetchResults :
          afterFetch(comp, i, res, now).isOpen = comp.isOpen
    /\ \A i \in JsonCalls(comp), body \in Bodies :
          \A cb \in CallbackOutcomes(comp, body) :
             afterJson(comp, i, body, cb, now).isOpen = comp.isOpen

\* C15: an accepted submit, as one step, empties the input text, sets the
\* pending flag and issues one call whose message is the trimmed input text
\* of before the submit; the input text is then empty for as long as the
\* request is pending, and a settle, failed or not, leaves it as it is.
C15_AcceptedSubmitEffects ==
    /\ [][AcceptedSubmit =>
            /\ comp'.inputMessage = <<>>
            /\ comp'.isLoading
            /\ Len(comp'.calls) = Len(comp.calls) + 1
            /\ Last(comp'.calls).request.message = trim(comp.inputMessage)
            /\ Last(comp'.calls).request.message # <<>>]_vars
    /\ [](comp.isLoading => comp.inputMessage = <<>>)
    /\ [][(\E i \in 1..Len(comp.calls) : SettledAt(i)) =>
            comp'.inputMessage = comp.inputMessage]_vars

\* C16: the pending flag is true exactly when a call has been issued and has
\* not settled, the time its body is being read included.
C16_PendingIffCallInFlight == comp.isLoading <=> comp.calls # <<>>

\* The store is user, bot, user, bot, ...: no two exchanges overlapped and
\* no settle appended twice.
Alternates(store) ==
    \A k \in 1..Len(store) : store[k].type = (IF k % 2 = 1 THEN "user" ELSE "bot")

\* C17: in the internal variant the messages of the store have pairwise
\* distinct ids, whatever the clock read at the submits and the settles.
\* (Stated for the stores that alternate, which the double trigger of C1 and
\* the throwing callback of C10 have not touched.)
C17_DistinctIds ==
    (comp.variant = "internal" /\ Alternates(comp.store)) =>
        \A j, k \in 1..Len(comp.store) :
            j # k => comp.store[j].id # comp.store[k].id

\* ---------------------------------------------- the two variants side by side
\* The internal-state component and the paired-entry component mounted for
\* the same user, each event delivered to both and each call of the one
\* settling as the call of the other does.
InitTwin ==
    /\ \E userId \in UserIds, hasSave \in BOOLEAN :
          /\ comp = Mount("internal", userId, hasSave)
          /\ twin = Mount("paired", userId, FALSE)
    /\ now = 0

TwinKeyPress ==
    /\ panelMounted(comp) /\ panelMounted(twin)
    /\ \E key \in Keys, shiftKey \in BOOLEAN :
          /\ (key = "Enter" /\ ~shiftKey) => WithinBound(comp)
          /\ comp' = handleKeyPress(comp, key, shiftKey, now)
          /\ twin' = handleKeyPress(twin, key, shiftKey, now)
    /\ UNCHANGED now

TwinClickSend ==
    /\ panelMounted(comp) /\ panelMounted(twin)
    /\ ~sendDisabled(comp) /\ ~sendDisabled(twin)
    /\ WithinBound(comp)
    /\ comp' = handleSendMessage(comp, now)
    /\ twin' = handleSendMessage(twin, now)
    /\ UNCHANGED now

TwinType ==
    /\ panelMounted(comp) /\ panelMounted(twin)
    /\ ~inputDisabled(comp) /\ ~inputDisabled(twin)
    /\ \E value \in InputTexts :
          /\ value # comp.view.inputMessage
          /\ comp' = render(setInputMessage(comp, value))
          /\ twin' = render(setInputMessage(twin, value))
    /\ UNCHANGED now

TwinToggle ==
    /\ comp' = toggleChat(comp)
    /\ twin' = toggleChat(twin)
    /\ UNCHANGED now

TwinRender ==
    /\ comp.view # Snapshot(comp) \/ twin.view # Snapshot(twin)
    /\ comp' = render(comp)
    /\ twin' = render(twin)
    /\ UNCHANGED now

TwinFetchSettles ==
    /\ EventsRendered(comp) /\ EventsRendered(twin)
    /\ \E i \in 1..Len(comp.calls), res \in FetchResults :
          /\ i <= Len(twin.calls)
          /\ comp.calls[i].stage = "fetch" /\ twin.calls[i].stage = "fetch"
          /\ comp' = afterFetch(comp, i, res, now)
          /\ twin' = afterFetch(twin, i, res, now)
    /\ UNCHANGED now

TwinJsonSettles ==
    /\ EventsRendered(comp) /\ EventsRendered(twin)
    /\ \E i \in 1..Len(comp.calls), body \in Bodies, cb \in CallbackResults :
          /\ i <= Len(twin.calls)
          /\ comp.calls[i].stage = "json" /\ twin.calls[i].stage = "json"
          /\ (cb = "throws") =>
                (comp.onSaveMessage /\ ~jsonRejects(body) /\ ~answerThrows(body))
          /\ comp' = afterJson(comp, i, body, cb, now)
          /\ twin' = afterJson(twin, i, body, cb, now)
    /\ UNCHANGED now

TwinTick ==
    /\ now < MaxClock
    /\ now' = now + 1
    /\ UNCHANGED <<comp, twin>>

NextTwin ==
    \/ TwinKeyPress
    \/ TwinClickSend
    \/ TwinType
    \/ TwinToggle
    \/ TwinRender
    \/ TwinFetchSettles
    \/ TwinJsonSettles
    \/ TwinTick

SpecTwin == InitTwin /\ [][NextTwin]_vars

\* The completed exchanges of an internal store, as (user text, bot text)
\* pairs: each user message with the bot message that directly follows it.
RECURSIVE Pairs(_)
Pairs(store) ==
    IF Len(store) < 2 THEN <<>>
    ELSE IF store[1].type = "user" /\ store[2].type = "bot"
         THEN <<[user |-> store[1].message, bot |-> store[2].message]>>
                 \o Pairs(SubSeq(store, 3, Len(store)))
         ELSE Pairs(Tail(store))

RECURSIVE Texts(_)
Texts(store) ==
    IF store = <<>> THEN <<>>
    ELSE <<[user |-> store[1].user, bot |-> store[1].bot]>> \o Texts(Tail(store))

\* C18: the two variants, run side by side on the same events and the same
\* call outcomes, always agree on the open flag, the input text and the
\* pending flag, have issued the same calls, and the paired store is the
\* internal store's completed exchanges as (user text, bot text) pairs.
C18_VariantsAgree ==
    /\ twin.isOpen = comp.isOpen
    /\ twin.inputMessage = comp.inputMessage
    /\ twin.isLoading = comp.isLoading
    /\ twin.view = comp.view
    /\ twin.calls = comp.calls /\ twin.issued = comp.issued
    /\ Texts(twin.store) = Pairs(comp.store)

\* C18 where no two exchanges of the internal store overlapped.
C18_AgreeWithoutOverlap == Alternates(comp.store) => C18_VariantsAgree

\* ------------------------------------------- the owner of the conversation
\* The paired-entry component under an owner that appends entries of its
\* own to the conversation while a request of the component is pending.
InitOwner ==
    /\ \E userId \in UserIds : comp = Mount("paired", userId, FALSE)
    /\ now = 0
    /\ twin = NoTwin

\* The owner calls its own setConversation(prev => [...prev, entry]).
OwnerAppends ==
    /\ comp.calls # <<>>
    /\ Len(OwnerEntries(comp.store)) < MaxOwnerEntries
    /\ comp' = [comp EXCEPT !.store =
                   Append(@, ownerEntry(Len(OwnerEntries(@)) + 1, now))]
    /\ UNCHANGED <<now, twin>>

NextOwner ==
    \/ KeyPress
    \/ ClickSend
    \/ Type
    \/ Toggle
    \/ Render
    \/ FetchSettles
    \/ JsonSettles
    \/ Tick
    \/ OwnerAppends

SpecOwner == InitOwner /\ [][NextOwner]_vars

\* C19: in the paired variant every settle leaves the conversation as the
\* owner's sequence of that moment followed by exactly one new entry, so
\* the entries the owner appended while the request was pending are all
\* there, in the order the owner appended them, ahead of the new entry.
C19_OwnerEntriesPreserved ==
    /\ [][\A i \in 1..Len(comp.calls) : SettledAt(i) =>
            \E text \in BotTexts :
               comp'.store = Append(comp.store,
                   [user |-> comp.calls[i].request.message,
                    bot |-> text, time |-> now])]_vars
    /\ [](\A n \in 1..Len(OwnerEntries(comp.store)) :
            OwnerEntries(comp.store)[n].bot = ToString(n))
    /\ [][Len(OwnerEntries(comp'.store)) >= Len(OwnerEntries(comp.store))]_vars

\* Two entries the owner appended while the request was pending, and the
\* entry of that request behind them.
C19_Witness ==
    /\ comp.issued = 1 /\ comp.calls = <<>>
    /\ Len(comp.store) = 3
    /\ comp.store[1] = ownerEntry(1, 0)
    /\ comp.store[2].user = OwnerText /\ comp.store[2].bot = "2"
    /\ comp.store[3].user = Hi /\ comp.store[3].bot = ApologyText

\* The seed of the internal store: `initialMessages = []`, the default.
SeedLength == Len(Mount("internal", "u1", FALSE).store)

\* C20: in the internal variant the entries after the seed alternate user,
\* bot, starting with a user message: the store is as long as the seed plus
\* two entries per settled exchange plus one while a request is pending,
\* and every bot message directly follows a user message.
C20_StrictAlternation ==
    comp.variant = "internal" =>
        /\ Len(comp.store) = SeedLength + 2 * Settled(comp)
                                + (IF comp.isLoading THEN 1 ELSE 0)
        /\ Alternates(SubSeq(comp.store, SeedLength + 1, Len(comp.store)))
        /\ \A k \in SeedLength + 1..Len(comp.store) :
              comp.store[k].type = "bot" =>
                 k > SeedLength + 1 /\ comp.store[k - 1].type = "user"

\* C20 for a component without a save callback that has issued one call.
C20_OneCallNoCallback ==
    (~comp.onSaveMessage /\ comp.issued <= 1) => C20_StrictAlternation
====
